---- MODULE Spec2Model ----
(***************************************************************************)
(* Hotel Ordering System backend (src/main.py, src/schemas.py).            *)
(*                                                                         *)
(* The state is the two MongoDB collections the handlers use ("menuitem"   *)
(* and "order"), the store as it was before the last request (pre) and     *)
(* the last request with its HTTP outcome (last).  Every request handler   *)
(* is one action of the specification Spec, in which the server takes one   *)
(* request at a time.  In the specification SpecRace the requests of tasks   *)
(* run at once, each handler one store operation at a time (applied is the   *)
(* order in which the tasks wrote to the store).                             *)
(*                                                                         *)
(* Money is a Python float in the code.  It is modelled in thousandths of  *)
(* the currency unit (1.004 is 1004), so that a price with more than two   *)
(* decimals and the effect of round(x, 2) are both visible.  All prices of *)
(* the model are even numbers of thousandths, so no value ever lies        *)
(* exactly between two cents and the direction in which round() resolves   *)
(* such a tie never matters.                                               *)
(*                                                                         *)
(* A Python value that may be None is modelled as a sequence of length at  *)
(* most one: <<>> is None and <<v>> is the value v.  A function that may   *)
(* raise returns <<>> for the exception and <<r>> for the result r.        *)
(***************************************************************************)
EXTENDS Integers, Sequences, FiniteSets, TLC

\* ------------------------------------------------------------------ bounds
\* requests the server handles in one run
MaxRequests == 2
\* requests the server handles at the same time
MaxTasks == 2

\* ------------------------------------------------------------ Python values
None == <<>>
Some(v) == <<v>>
Raised == <<>>
Returned(v) == <<v>>

\* HTTP outcomes: HTTPException(400), HTTPException(404), FastAPI's answer to a
\* request body that fails its pydantic model, and to an exception no handler catches
OK == 200
BadRequest == 400
NotFound == 404
Unprocessable == 422
ServerError == 500

\* ------------------------------------------------------------------- ids
\* A store id is an ObjectId, here a natural number.  The string a caller sends
\* is <<"oid", n>> (the 24 hex digits of n, lower case), <<"OID", n>> (the same
\* digits in upper case, which ObjectId() accepts) or <<"zz">> (not 24 hex digits).
NoId == <<>>
Lower(oid) == <<"oid", oid>>
Upper(oid) == <<"OID", oid>>
Malformed == <<"zz">>

\* str(ObjectId): always the lower-case digits
str(oid) == Lower(oid)

\* ids the store hands out: the i-th menu item, the j-th order
MenuOid(i) == 2 * i
OrderOid(j) == 2 * j - 1

\* PyObjectId.validate(v): the ObjectId of a well-formed string, ValueError otherwise
validate(v) ==
    IF Len(v) = 2 /\ v[1] \in {"oid", "OID"} THEN Returned(v[2]) ELSE Raised

\* ------------------------------------------------------------------ money
\* Python's round(x, 2) on a value in thousandths: the nearest multiple of 10,
\* a value exactly in between going to the even cent
round(x) ==
    LET lo == (x \div 10) * 10
        r  == x - lo
    IN  IF r < 5 THEN lo
        ELSE IF r > 5 THEN lo + 10
        ELSE IF (lo \div 10) % 2 = 0 THEN lo ELSE lo + 10

\* a line total that forgets the quantity
LineTotalNoQuantity(price, quantity) == price
\* line_total = price * it.quantity
LineTotal(price, quantity) == price * quantity

\* tax = round(sub_total * 0.0, 2)
Tax(sub_total) == round(sub_total * 0)

RECURSIVE SumSeq(_, _)
\* the sum of f[i] over i in 1..n
SumSeq(f, n) == IF n = 0 THEN 0 ELSE SumSeq(f, n - 1) + f[n]

\* ------------------------------------------------------------ the store
\* pymongo find_one({"_id": oid, ...}): the positions of the documents with that id
Find(coll, oid) == {i \in 1..Len(coll) : coll[i]._id = oid}

\* pymongo update_one(..., {"$set": set}) on the document at position i
ApplySet(doc, set) ==
    [k \in DOMAIN doc |-> IF k \in DOMAIN set THEN set[k] ELSE doc[k]]

UpdateOne(coll, i, set) == [coll EXCEPT ![i] = ApplySet(coll[i], set)]

\* create_document(collection_name, data): the model's fields, the creation time
\* and the id the store gives the new document, appended to the collection
CreateDocument(coll, data, oid) ==
    Append(coll, [k \in DOMAIN data \cup {"_id", "created_at"} |->
                    IF k = "_id" THEN oid
                    ELSE IF k = "created_at" THEN Len(coll) + 1
                    ELSE data[k]])

\* get_documents(collection_name, filter_dict) with the filter {"paid": paid}
GetDocumentsPaid(coll, paid) == SelectSeq(coll, LAMBDA d : d.paid = paid)

\* get_documents(collection_name, filter_dict): the documents that carry, for
\* every key of the filter, the filter's value, in the order of the collection
GetDocuments(coll, filt) ==
    SelectSeq(coll, LAMBDA d : \A k \in DOMAIN filt : d[k] = filt[k])

RECURSIVE SortNewestFirst(_)
\* docs.sort(key=lambda d: d.get("created_at"), reverse=True): a stable sort,
\* documents of equal created_at keep the order they had
SortNewestFirst(docs) ==
    IF docs = <<>> THEN <<>>
    ELSE LET m == CHOOSE i \in 1..Len(docs) :
                    \A j \in 1..Len(docs) :
                        \/ docs[j].created_at < docs[i].created_at
                        \/ docs[j].created_at = docs[i].created_at /\ i <= j
         IN  <<docs[m]>> \o SortNewestFirst(SubSeq(docs, 1, m - 1) \o SubSeq(docs, m + 1, Len(docs)))

\* serialize_doc(doc): "_id" becomes the string "id"; every dict inside a list
\* value is serialised the same way, and doc.pop("_id") raises KeyError on a dict
\* without "_id", which is what every line item of an order is
SerializeDoc(doc) ==
    IF "items" \in DOMAIN doc /\ Len(doc.items) > 0
    THEN Raised
    ELSE Returned([k \in (DOMAIN doc \ {"_id"}) \cup {"id"} |->
                     IF k = "id" THEN str(doc._id) ELSE doc[k]])

\* ------------------------------------------------------------ variables
VARIABLES menu, orders, requests, pre, last, tasks, applied
vars == <<menu, orders, requests, pre, last, tasks, applied>>

NoDetail == [msg |-> "", id |-> NoId]
NoBody == <<>>

\* the reply to a request: what was asked, the status code, the error detail
\* and the response body
Reply(op, id, req, code, detail, body) ==
    /\ requests' = requests + 1
    /\ pre' = [menu |-> menu, orders |-> orders]
    /\ last' = [op |-> op, code |-> code, detail |-> detail,
                id |-> id, req |-> req, body |-> body]
    /\ UNCHANGED <<tasks, applied>>

\* ------------------------------------------------------------ requests
\* the id strings a caller sends for a collection whose documents have the ids
\* stored: each stored id and one well-formed id that is not stored (fresh) in
\* lower case, the id first also in upper case, and a string that is no ObjectId
ReqIds(first, stored, fresh) ==
    {Lower(oid) : oid \in stored \cup {fresh}} \cup {Upper(first), Malformed}

\* the ids sent for a menu of n items and for a collection of n orders
MenuIds(n) == ReqIds(MenuOid(1), {MenuOid(i) : i \in 1..n}, MenuOid(n + 1))
OrderIds(n) == ReqIds(OrderOid(1), {OrderOid(j) : j \in 1..n}, OrderOid(n + 1))

\* MenuItemCreate bodies (schemas.MenuItem); the last one breaks price >= 0
CreateBodies ==
    { [name |-> "Tea", description |-> None, price |-> 1000,
       category |-> None, is_available |-> TRUE],
      [name |-> "Pie", description |-> Some("warm"), price |-> 1004,
       category |-> Some("Dessert"), is_available |-> TRUE],
      [name |-> "Tea", description |-> None, price |-> 0 - 5000,
       category |-> None, is_available |-> TRUE] }

\* MenuItemUpdate bodies: the fields that were sent, each with its value (None
\* for an explicit null); the last one breaks price >= 0
PatchBodies ==
    { <<>>,
      [is_available |-> Some(FALSE)],
      [name |-> Some("Bun"), price |-> Some(2000)],
      [description |-> None, category |-> Some("Main")],
      [price |-> None],
      [name |-> None],
      [is_available |-> None],
      [price |-> Some(0 - 5000)] }

\* OrderPlaceItem bodies (quantity >= 1) for a menu of n items: the first item
\* once and twice, every other stored item once, an item that is not stored,
\* the first item by its upper-case id, and a string that is no ObjectId
PlaceItems(n) ==
    {[menu_item_id |-> Lower(MenuOid(1)), quantity |-> 2]}
    \cup {[menu_item_id |-> id, quantity |-> 1] : id \in MenuIds(n)}

\* the requested item lists: none; one item; and two items, the second of them
\* one piece of an item named by a lower-case id or by no ObjectId at all
ItemLists(n) ==
    {<<>>} \cup {<<x>> : x \in PlaceItems(n)}
           \cup {<<x, y>> : x \in PlaceItems(n),
                            y \in {z \in PlaceItems(n) :
                                     z.quantity = 1 /\ z.menu_item_id # Upper(MenuOid(1))}}

\* PlaceOrderRequest bodies
PlaceBodies(n) ==
    {[table_number |-> t.table_number, items |-> its, notes |-> t.notes] :
        t \in { [table_number |-> "5", notes |-> None],
                [table_number |-> "7", notes |-> Some("no onions")] },
        its \in ItemLists(n)}

\* the query parameters of GET /orders: each may be left out (None); status may
\* be sent empty; paid may be sent as false
ListQueries ==
    {[status |-> st, table |-> tb, paid |-> pd] :
        st \in {None, Some(""), Some("placed")},
        tb \in {None, Some("5")},
        pd \in {None, Some(FALSE), Some(TRUE)}}

\* a valid set that takes a status whatever the case of its first letter
ValidStatusesWithCapital == {"placed", "preparing", "ready", "served", "paid", "cancelled", "Paid"}
\* valid = {"placed", "preparing", "ready", "served", "paid", "cancelled"}
ValidStatuses == {"placed", "preparing", "ready", "served", "paid", "cancelled"}

\* the status strings a caller sends: the six of the code, one of them with a
\* capital letter, and an unknown one
StatusInputs == ValidStatuses \cup {"Paid", "done"}

\* ------------------------------------------------------------ menu
\* the document of a MenuItemCreate body: any of its fields may later be set to
\* None by a patch, so each is stored as a value that may be None
MenuData(item) ==
    [name |-> Some(item.name), description |-> item.description,
     price |-> Some(item.price), category |-> item.category,
     is_available |-> Some(item.is_available)]

\* POST /menu
create_menu_item(item) ==
    IF item.price < 0
    THEN /\ UNCHANGED <<menu, orders>>
         /\ Reply("create_menu_item", NoId, item, Unprocessable,
                  [msg |-> "price: ge=0", id |-> NoId], NoBody)
    ELSE /\ LET coll == CreateDocument(menu, MenuData(item), MenuOid(Len(menu) + 1))
                doc  == coll[CHOOSE i \in Find(coll, MenuOid(Len(menu) + 1)) : TRUE]
            IN  /\ menu' = coll
                /\ Reply("create_menu_item", NoId, item, OK, NoDetail, SerializeDoc(doc))
         /\ UNCHANGED orders

\* PATCH /menu/{item_id}: the status code, the error detail, the menu and the
\* response body it ends with
UpdateMenuItem(mn, item_id, patch) ==
    LET ends(code, msg, coll, body) ==
            [code |-> code, detail |-> [msg |-> msg, id |-> NoId], menu |-> coll, body |-> body]
    IN  IF "price" \in DOMAIN patch /\ patch.price # None /\ patch.price[1] < 0
        THEN ends(Unprocessable, "price: ge=0", mn, NoBody)
        ELSE IF DOMAIN patch = {}
        THEN ends(OK, "", mn, Returned([updated |-> FALSE]))
        ELSE IF validate(item_id) = Raised
        THEN ends(ServerError, "ValueError: Invalid ObjectId", mn, NoBody)
        ELSE IF Find(mn, validate(item_id)[1]) = {}
        THEN ends(NotFound, "Menu item not found", mn, NoBody)
        ELSE LET i == CHOOSE j \in Find(mn, validate(item_id)[1]) : TRUE
                 coll == UpdateOne(mn, i, patch)
             IN  ends(OK, "", coll, SerializeDoc(coll[i]))

\* a menu update that also rewrites the lines of the orders that name the item
update_menu_item_cascading(item_id, patch) ==
    LET r == UpdateMenuItem(menu, item_id, patch)
        relined(line) ==
            IF validate(item_id) # Raised /\ line.menu_item_id = str(validate(item_id)[1])
               /\ "price" \in DOMAIN patch /\ patch.price # None
            THEN [line EXCEPT !.price = patch.price[1]]
            ELSE line
    IN  /\ menu' = r.menu
        /\ orders' = IF r.menu = menu THEN orders
                     ELSE [j \in 1..Len(orders) |->
                             [orders[j] EXCEPT !.items =
                                [k \in 1..Len(orders[j].items) |-> relined(orders[j].items[k])]]]
        /\ Reply("update_menu_item", item_id, patch, r.code, r.detail, r.body)

update_menu_item(item_id, patch) ==
    LET r == UpdateMenuItem(menu, item_id, patch)
    IN  /\ menu' = r.menu
        /\ UNCHANGED orders
        /\ Reply("update_menu_item", item_id, patch, r.code, r.detail, r.body)

\* ------------------------------------------------------------ orders
\* a place_order without its test for an empty request
NoItemsNever(items) == FALSE
\* if not payload.items
NoItems(items) == Len(items) = 0

\* a status update that also resets the paid flag
StatusSetClearsPaid(status) == [status |-> status, paid |-> FALSE]
\* the $set documents of update_order_status and mark_order_paid
StatusSet(status) == [status |-> status]
\* a payment that also clears the amount of the order
PaidSetClearsTotal == [paid |-> TRUE, status |-> "paid", total |-> 0]
PaidSet == [paid |-> TRUE, status |-> "paid"]

\* an order that starts in a status of its own
NewOrderOpen(payload, snapshot_items, sub_total) ==
    [table_number |-> payload.table_number, items |-> snapshot_items,
     sub_total |-> round(sub_total), tax |-> Tax(sub_total),
     total |-> round(sub_total + Tax(sub_total)),
     status |-> "open", paid |-> FALSE, notes |-> payload.notes]

\* Order(table_number=..., items=snapshot_items, sub_total=round(sub_total, 2), ...)
NewOrder(payload, snapshot_items, sub_total) ==
    [table_number |-> payload.table_number, items |-> snapshot_items,
     sub_total |-> round(sub_total), tax |-> Tax(sub_total),
     total |-> round(sub_total + Tax(sub_total)),
     status |-> "placed", paid |-> FALSE, notes |-> payload.notes]

RECURSIVE BuildSnapshot(_, _, _, _, _)
\* the loop of place_order over payload.items from position k on: the first
\* item that cannot be priced ends it with that item's error
BuildSnapshot(mn, items, k, snapshot_items, sub_total) ==
    IF k > Len(items)
    THEN [code |-> OK, detail |-> NoDetail, items |-> snapshot_items, sub_total |-> sub_total]
    ELSE
    LET it == items[k]
        oid == validate(it.menu_item_id)
        failed(code, msg, id) ==
            [code |-> code, detail |-> [msg |-> msg, id |-> id],
             items |-> snapshot_items, sub_total |-> sub_total]
    IN  IF oid = Raised
        THEN failed(ServerError, "ValueError: Invalid ObjectId", NoId)
        ELSE
        LET found == {i \in Find(mn, oid[1]) : mn[i].is_available = Some(TRUE)}
        IN  IF found = {}
            THEN failed(NotFound, "Menu item not found or unavailable", it.menu_item_id)
            ELSE
            LET menu_doc == mn[CHOOSE i \in found : TRUE]
            IN  IF menu_doc.price = None
                THEN failed(ServerError, "TypeError: float(None)", NoId)
                ELSE IF menu_doc.name = None
                THEN failed(ServerError, "ValidationError: OrderItem.name", NoId)
                ELSE
                LET price == menu_doc.price[1]
                    line_total == LineTotal(price, it.quantity)
                IN  BuildSnapshot(mn, items, k + 1,
                        Append(snapshot_items,
                               [menu_item_id |-> str(menu_doc._id),
                                name |-> menu_doc.name[1],
                                price |-> price,
                                quantity |-> it.quantity,
                                total |-> line_total]),
                        sub_total + line_total)

\* the order collection after place_order has stored the order it built
Placed(coll, payload, built) ==
    CreateDocument(coll, NewOrder(payload, built.items, built.sub_total),
                   OrderOid(Len(coll) + 1))

\* the answer of a handler that ends with "return serialize_doc(doc)"
ReplySerialized(op, id, req, doc) ==
    IF SerializeDoc(doc) = Raised
    THEN Reply(op, id, req, ServerError, [msg |-> "KeyError: '_id'", id |-> NoId], NoBody)
    ELSE Reply(op, id, req, OK, NoDetail, SerializeDoc(doc))

\* POST /orders
place_order(payload) ==
    IF NoItems(payload.items)
    THEN /\ UNCHANGED <<menu, orders>>
         /\ Reply("place_order", NoId, payload, BadRequest,
                  [msg |-> "No items provided", id |-> NoId], NoBody)
    ELSE
    LET built == BuildSnapshot(menu, payload.items, 1, <<>>, 0)
    IN  IF built.code # OK
        THEN /\ UNCHANGED <<menu, orders>>
             /\ Reply("place_order", NoId, payload, built.code, built.detail, NoBody)
        ELSE
        LET coll == Placed(orders, payload, built)
            doc  == coll[CHOOSE i \in Find(coll, OrderOid(Len(orders) + 1)) : TRUE]
        IN  /\ orders' = coll
            /\ UNCHANGED menu
            /\ ReplySerialized("place_order", NoId, payload, doc)

\* PATCH /orders/{order_id}/status
update_order_status(order_id, status) ==
    IF status \notin ValidStatuses
    THEN /\ UNCHANGED <<menu, orders>>
         /\ Reply("update_order_status", order_id, status, BadRequest,
                  [msg |-> "Invalid status", id |-> NoId], NoBody)
    ELSE IF validate(order_id) = Raised
    THEN /\ UNCHANGED <<menu, orders>>
         /\ Reply("update_order_status", order_id, status, ServerError,
                  [msg |-> "ValueError: Invalid ObjectId", id |-> NoId], NoBody)
    ELSE IF Find(orders, validate(order_id)[1]) = {}
    THEN /\ UNCHANGED <<menu, orders>>
         /\ Reply("update_order_status", order_id, status, NotFound,
                  [msg |-> "Order not found", id |-> NoId], NoBody)
    ELSE LET i == CHOOSE j \in Find(orders, validate(order_id)[1]) : TRUE
             coll == UpdateOne(orders, i, StatusSet(status))
         IN  /\ orders' = coll
             /\ UNCHANGED menu
             /\ ReplySerialized("update_order_status", order_id, status, coll[i])

\* PATCH /orders/{order_id}/pay
mark_order_paid(order_id) ==
    IF validate(order_id) = Raised
    THEN /\ UNCHANGED <<menu, orders>>
         /\ Reply("mark_order_paid", order_id, <<>>, ServerError,
                  [msg |-> "ValueError: Invalid ObjectId", id |-> NoId], NoBody)
    ELSE IF Find(orders, validate(order_id)[1]) = {}
    THEN /\ UNCHANGED <<menu, orders>>
         /\ Reply("mark_order_paid", order_id, <<>>, NotFound,
                  [msg |-> "Order not found", id |-> NoId], NoBody)
    ELSE LET i == CHOOSE j \in Find(orders, validate(order_id)[1]) : TRUE
             coll == UpdateOne(orders, i, PaidSet)
         IN  /\ orders' = coll
             /\ UNCHANGED menu
             /\ ReplySerialized("mark_order_paid", order_id, <<>>, coll[i])

\* GET /billing
billing_overview ==
    LET docs == GetDocumentsPaid(orders, FALSE)
        total_to_collect == SumSeq([i \in 1..Len(docs) |-> docs[i].total], Len(docs))
    IN  /\ UNCHANGED <<menu, orders>>
        /\ IF \E i \in 1..Len(docs) : SerializeDoc(docs[i]) = Raised
           THEN Reply("billing_overview", NoId, <<>>, ServerError,
                      [msg |-> "KeyError: '_id'", id |-> NoId], NoBody)
           ELSE Reply("billing_overview", NoId, <<>>, OK, NoDetail,
                      Returned([orders |-> [i \in 1..Len(docs) |-> SerializeDoc(docs[i])[1]],
                                total_to_collect |-> round(total_to_collect)]))

\* the filter list_orders builds: "if status", "if table" (a parameter that is
\* left out or empty adds nothing) and "if paid is not None"
Filt(status, table, paid) ==
    LET keys == (IF status # None /\ status[1] # "" THEN {"status"} ELSE {})
                \cup (IF table # None /\ table[1] # "" THEN {"table_number"} ELSE {})
                \cup (IF paid # None THEN {"paid"} ELSE {})
    IN  [k \in keys |-> IF k = "status" THEN status[1]
                        ELSE IF k = "table_number" THEN table[1]
                        ELSE paid[1]]

\* the documents list_orders is about to serialise
ListedOrders(coll, query) ==
    SortNewestFirst(GetDocuments(coll, Filt(query.status, query.table, query.paid)))

\* the answer of a handler that ends with "return [serialize_doc(d) for d in docs]"
ReplySerializedList(op, req, docs) ==
    IF \E i \in 1..Len(docs) : SerializeDoc(docs[i]) = Raised
    THEN Reply(op, NoId, req, ServerError, [msg |-> "KeyError: '_id'", id |-> NoId], NoBody)
    ELSE Reply(op, NoId, req, OK, NoDetail,
               Returned([i \in 1..Len(docs) |-> SerializeDoc(docs[i])[1]]))

\* GET /orders
list_orders(query) ==
    /\ UNCHANGED <<menu, orders>>
    /\ ReplySerializedList("list_orders", query, ListedOrders(orders, query))

\* GET /menu
list_menu ==
    /\ UNCHANGED <<menu, orders>>
    /\ ReplySerializedList("list_menu", <<>>, GetDocuments(menu, <<>>))

\* ------------------------------------------------------------ specification
\* The store outlives the server.  When the server starts, the store holds what
\* earlier requests left in it: nothing; or the menu items Tea and Pie; or, with
\* them, the order of table 5 for two Tea and one more Tea; or, with that, the
\* order of table 7 for a Tea.
Stores ==
    LET tea == CHOOSE item \in CreateBodies : item.name = "Tea" /\ item.price >= 0
        pie == CHOOSE item \in CreateBodies : item.name = "Pie"
        mn  == CreateDocument(CreateDocument(<<>>, MenuData(tea), MenuOid(1)),
                              MenuData(pie), MenuOid(2))
        first  == [table_number |-> "5", notes |-> None,
                   items |-> << [menu_item_id |-> Lower(MenuOid(1)), quantity |-> 2],
                                [menu_item_id |-> Lower(MenuOid(1)), quantity |-> 1] >>]
        second == [table_number |-> "7", notes |-> Some("no onions"),
                   items |-> << [menu_item_id |-> Lower(MenuOid(1)), quantity |-> 1] >>]
        one == Placed(<<>>, first, BuildSnapshot(mn, first.items, 1, <<>>, 0))
        two == Placed(one, second, BuildSnapshot(mn, second.items, 1, <<>>, 0))
    IN  { [menu |-> <<>>, orders |-> <<>>],
          [menu |-> mn, orders |-> <<>>],
          [menu |-> mn, orders |-> one],
          [menu |-> mn, orders |-> two] }

Init ==
    /\ \E store \in Stores : menu = store.menu /\ orders = store.orders
    /\ requests = 0
    /\ pre = [menu |-> menu, orders |-> orders]
    /\ last = [op |-> "start", code |-> OK, detail |-> NoDetail,
               id |-> NoId, req |-> <<>>, body |-> NoBody]
    /\ tasks = <<>>
    /\ applied = <<>>

\* the server takes one request at a time
Serving == requests < MaxRequests

Next ==
    \/ Serving /\ \E item \in CreateBodies : create_menu_item(item)
    \/ Serving /\ \E item_id \in MenuIds(Len(menu)), patch \in PatchBodies :
                     update_menu_item(item_id, patch)
    \/ Serving /\ \E payload \in PlaceBodies(Len(menu)) : place_order(payload)
    \/ Serving /\ \E order_id \in OrderIds(Len(orders)), status \in StatusInputs :
                     update_order_status(order_id, status)
    \/ Serving /\ \E order_id \in OrderIds(Len(orders)) : mark_order_paid(order_id)
    \/ Serving /\ billing_overview
    \/ Serving /\ \E query \in ListQueries : list_orders(query)
    \/ Serving /\ list_menu

Spec == Init /\ [][Next]_vars

\* ------------------------------------------------------------ requests at once
\* FastAPI runs a handler that is a plain "def" on a thread of its pool, so the
\* handlers of two requests run at the same time.  Each call of pymongo
\* (find_one, update_one, the insert of create_document) is one atomic operation
\* of the store; what a handler does between two of them touches only its own
\* variables.  A task is a request with the position of its handler (pc) and the
\* handler's variables: the index k of the next requested item, snapshot_items
\* (items) and sub_total; seen is the menu document each lookup returned.
Tasks == 1..MaxTasks

Task(op, id, req) ==
    [op |-> op, id |-> id, req |-> req, pc |-> "start", k |-> 1,
     items |-> <<>>, sub_total |-> 0, seen |-> <<>>, code |-> 0]

\* the store the requests meet: Tea and Pie on the menu and two orders
RaceStore == CHOOSE store \in Stores : Len(store.orders) = 2

\* the requests that run at once: status updates (one of them invalid) and
\* payments of the two orders, patches of the two menu items, and orders of them
RaceRequests ==
    {Task("update_order_status", Lower(OrderOid(j)), st) :
        j \in 1..2, st \in {"ready", "paid", "Paid"}}
    \cup {Task("mark_order_paid", Lower(OrderOid(j)), <<>>) : j \in 1..2}
    \cup {Task("update_menu_item", Lower(MenuOid(i)), patch) :
            i \in 1..2,
            patch \in {[is_available |-> Some(FALSE)],
                       [name |-> Some("Bun"), price |-> Some(2000)],
                       [price |-> None]}}
    \cup {Task("place_order", NoId, [table_number |-> "5", items |-> its, notes |-> None]) :
            its \in { << [menu_item_id |-> Lower(MenuOid(1)), quantity |-> 2],
                         [menu_item_id |-> Lower(MenuOid(2)), quantity |-> 1] >>,
                      << [menu_item_id |-> Lower(MenuOid(2)), quantity |-> 1] >>,
                      <<>> }}

\* the handler of task t ends with the status code
Ends(t, code) == tasks' = [tasks EXCEPT ![t].pc = "done", ![t].code = code]

\* the handler of task t has written to the store
Wrote(t) ==
    /\ tasks' = [tasks EXCEPT ![t].pc = "written"]
    /\ applied' = Append(applied, t)

\* update_order_status up to its update_one
update_order_status_update_one(t) ==
    /\ tasks[t].op = "update_order_status"
    /\ tasks[t].pc = "start"
    /\ UNCHANGED <<menu, requests, pre, last>>
    /\ IF tasks[t].req \notin ValidStatuses
       THEN Ends(t, BadRequest) /\ UNCHANGED <<orders, applied>>
       ELSE IF validate(tasks[t].id) = Raised
       THEN Ends(t, ServerError) /\ UNCHANGED <<orders, applied>>
       ELSE IF Find(orders, validate(tasks[t].id)[1]) = {}
       THEN Ends(t, NotFound) /\ UNCHANGED <<orders, applied>>
       ELSE LET i == CHOOSE j \in Find(orders, validate(tasks[t].id)[1]) : TRUE
            IN  /\ orders' = UpdateOne(orders, i, StatusSet(tasks[t].req))
                /\ Wrote(t)

\* mark_order_paid up to its update_one
mark_order_paid_update_one(t) ==
    /\ tasks[t].op = "mark_order_paid"
    /\ tasks[t].pc = "start"
    /\ UNCHANGED <<menu, requests, pre, last>>
    /\ IF validate(tasks[t].id) = Raised
       THEN Ends(t, ServerError) /\ UNCHANGED <<orders, applied>>
       ELSE IF Find(orders, validate(tasks[t].id)[1]) = {}
       THEN Ends(t, NotFound) /\ UNCHANGED <<orders, applied>>
       ELSE LET i == CHOOSE j \in Find(orders, validate(tasks[t].id)[1]) : TRUE
            IN  /\ orders' = UpdateOne(orders, i, PaidSet)
                /\ Wrote(t)

\* update_menu_item up to its update_one
update_menu_item_update_one(t) ==
    /\ tasks[t].op = "update_menu_item"
    /\ tasks[t].pc = "start"
    /\ UNCHANGED <<orders, requests, pre, last>>
    /\ LET r == UpdateMenuItem(menu, tasks[t].id, tasks[t].req)
       IN  IF r.code = OK /\ DOMAIN tasks[t].req # {}
           THEN menu' = r.menu /\ Wrote(t)
           ELSE Ends(t, r.code) /\ UNCHANGED <<menu, applied>>

\* place_order: the test for an empty request, and one pass of the loop (one
\* find_one on the menu and the line built from the document it returned)
place_order_find_one(t) ==
    /\ tasks[t].op = "place_order"
    /\ tasks[t].pc \in {"start", "looking"}
    /\ UNCHANGED <<menu, orders, requests, pre, last, applied>>
    /\ IF NoItems(tasks[t].req.items)
       THEN Ends(t, BadRequest)
       ELSE LET it == tasks[t].req.items[tasks[t].k]
                built == BuildSnapshot(menu, <<it>>, 1, tasks[t].items, tasks[t].sub_total)
            IN  IF built.code # OK
                THEN Ends(t, built.code)
                ELSE LET m == CHOOSE i \in Find(menu, validate(it.menu_item_id)[1]) : TRUE
                     IN  tasks' = [tasks EXCEPT
                            ![t].pc = IF tasks[t].k = Len(tasks[t].req.items)
                                      THEN "built" ELSE "looking",
                            ![t].k = tasks[t].k + 1,
                            ![t].items = built.items,
                            ![t].sub_total = built.sub_total,
                            ![t].seen = Append(tasks[t].seen, menu[m])]

\* the lines of a snapshot priced again from the menu as it is now
Repriced(mn, items) ==
    [k \in 1..Len(items) |->
        LET found == {i \in 1..Len(mn) : str(mn[i]._id) = items[k].menu_item_id
                                          /\ mn[i].price # None /\ mn[i].name # None}
        IN  IF found = {} THEN items[k]
            ELSE LET doc == mn[CHOOSE i \in found : TRUE]
                 IN  [items[k] EXCEPT !.price = doc.price[1], !.name = doc.name[1],
                                      !.total = LineTotal(doc.price[1], items[k].quantity)]]

\* a place_order that prices its lines when it stores the order
place_order_create_document_repriced(t) ==
    /\ tasks[t].op = "place_order"
    /\ tasks[t].pc = "built"
    /\ UNCHANGED <<menu, requests, pre, last>>
    /\ LET lines == Repriced(menu, tasks[t].items)
           built == [items |-> lines,
                     sub_total |-> SumSeq([k \in 1..Len(lines) |-> lines[k].total], Len(lines))]
       IN  orders' = Placed(orders, tasks[t].req, built)
    /\ tasks' = [tasks EXCEPT ![t].pc = "written", ![t].id = str(OrderOid(Len(orders) + 1))]
    /\ applied' = Append(applied, t)

\* place_order after its loop: the totals, the Order and create_document
place_order_create_document(t) ==
    /\ tasks[t].op = "place_order"
    /\ tasks[t].pc = "built"
    /\ UNCHANGED <<menu, requests, pre, last>>
    /\ orders' = Placed(orders, tasks[t].req,
                        [items |-> tasks[t].items, sub_total |-> tasks[t].sub_total])
    /\ tasks' = [tasks EXCEPT ![t].pc = "written", ![t].id = str(OrderOid(Len(orders) + 1))]
    /\ applied' = Append(applied, t)

\* the end of every handler that wrote: find_one on the document it wrote and
\* "return serialize_doc(doc)"
find_one_and_return(t) ==
    /\ tasks[t].pc = "written"
    /\ UNCHANGED <<menu, orders, requests, pre, last, applied>>
    /\ LET coll == IF tasks[t].op = "update_menu_item" THEN menu ELSE orders
           doc == coll[CHOOSE i \in Find(coll, validate(tasks[t].id)[1]) : TRUE]
       IN  Ends(t, IF SerializeDoc(doc) = Raised THEN ServerError ELSE OK)

InitRace ==
    /\ menu = RaceStore.menu
    /\ orders = RaceStore.orders
    /\ requests = 0
    /\ pre = [menu |-> menu, orders |-> orders]
    /\ last = [op |-> "start", code |-> OK, detail |-> NoDetail,
               id |-> NoId, req |-> <<>>, body |-> NoBody]
    /\ tasks \in [Tasks -> RaceRequests]
    /\ applied = <<>>

NextRace ==
    \E t \in Tasks :
        \/ update_order_status_update_one(t)
        \/ mark_order_paid_update_one(t)
        \/ update_menu_item_update_one(t)
        \/ place_order_find_one(t)
        \/ place_order_create_document(t)
        \/ find_one_and_return(t)

SpecRace == InitRace /\ [][NextRace]_vars

\* ------------------------------------------------------------ properties
\* In every property, pre is the store before the last request, menu and orders
\* are the store after it, and last is the request and its answer: a property of
\* this shape that holds in every reachable state holds of every request.

\* the id string names the document (ObjectId strings are hexadecimal digits,
\* so the case of the letters does not matter)
Names(id, doc) == Len(id) = 2 /\ id[2] = doc._id

\* the positions of the documents of coll that the id string names
Stored(coll, id) == {i \in 1..Len(coll) : Names(id, coll[i])}

\* the menu has an available item that the id string names
Orderable(mn, id) == \E i \in Stored(mn, id) : mn[i].is_available = Some(TRUE)

\* the sum of unit price x quantity over the lines of an order
LineSum(o) ==
    SumSeq([k \in 1..Len(o.items) |-> o.items[k].price * o.items[k].quantity], Len(o.items))

\* what C1 says of every line of an order and of its tax and total
LinesAndTotal(o) ==
    /\ \A k \in 1..Len(o.items) : o.items[k].total = o.items[k].price * o.items[k].quantity
    /\ o.tax = 0
    /\ o.total = o.sub_total + o.tax

C2_AllOrNothing ==
    last.op = "place_order" =>
        LET its == last.req.items
            bad == {k \in 1..Len(its) : ~Orderable(pre.menu, its[k].menu_item_id)}
        IN  bad # {} =>
                /\ last.code = NotFound
                /\ last.detail.id = its[CHOOSE k \in bad : \A j \in bad : k <= j].menu_item_id
                /\ orders = pre.orders

\* the part of C2 that holds: such a request leaves the stored orders unchanged
C2_NothingStored ==
    (/\ last.op = "place_order"
     /\ \E k \in 1..Len(last.req.items) :
            ~Orderable(pre.menu, last.req.items[k].menu_item_id))
    => orders = pre.orders

\* C3: place_order with an empty item list ends with ValidationError (400) and
\* leaves the orders and the menu unchanged.
C3_EmptyRejected ==
    (last.op = "place_order" /\ Len(last.req.items) = 0) =>
        /\ last.code = BadRequest
        /\ orders = pre.orders
        /\ menu = pre.menu

\* place_order was called with no items on a store that holds a menu and orders
C3_Witness ==
    /\ last.op = "place_order"
    /\ Len(last.req.items) = 0
    /\ pre.menu # <<>>
    /\ pre.orders # <<>>

\* what C4 says of the store after a place_order that stored an order: one new
\* order, placed and unpaid, one line per requested item in request order with
\* the name and price of the menu item it names; the other orders and the menu
\* are unchanged
OneOrderAdded ==
    /\ Len(orders) = Len(pre.orders) + 1
    /\ \A i \in 1..Len(pre.orders) : orders[i] = pre.orders[i]
    /\ menu = pre.menu
    /\ LET o == orders[Len(orders)]
           its == last.req.items
       IN  /\ o.status = "placed"
           /\ o.paid = FALSE
           /\ o.table_number = last.req.table_number
           /\ Len(o.items) = Len(its)
           /\ \A k \in 1..Len(its) :
                \E m \in Stored(pre.menu, its[k].menu_item_id) :
                    /\ o.items[k].name = pre.menu[m].name[1]
                    /\ o.items[k].price = pre.menu[m].price[1]
                    /\ o.items[k].quantity = its[k].quantity

C4_OrderStored ==
    (last.op = "place_order" /\ (orders # pre.orders \/ last.code = OK)) => OneOrderAdded

\* the orders after the order at position i was marked paid
MarkedPaid(coll, i) == [coll EXCEPT ![i].paid = TRUE, ![i].status = "paid"]

\* C5: mark_order_paid on a stored order leaves it paid with status "paid" and
\* changes nothing else; on an id that names no order it ends with NotFoundError
\* and changes nothing.
C5_MarkPaid ==
    last.op = "mark_order_paid" =>
        /\ menu = pre.menu
        /\ IF Stored(pre.orders, last.id) # {}
           THEN \E i \in Stored(pre.orders, last.id) : orders = MarkedPaid(pre.orders, i)
           ELSE last.code = NotFound /\ orders = pre.orders

\* the part of C5 that holds: the effect on the store
C5_StoreEffect ==
    last.op = "mark_order_paid" =>
        /\ menu = pre.menu
        /\ IF Stored(pre.orders, last.id) # {}
           THEN \E i \in Stored(pre.orders, last.id) : orders = MarkedPaid(pre.orders, i)
           ELSE orders = pre.orders

\* the six status strings of the code
SixStatuses == {"placed", "preparing", "ready", "served", "paid", "cancelled"}

\* C6: update_order_status with a status string outside the six ends with
\* ValidationError (400) and leaves every order unchanged, whatever the id.
C6_InvalidStatus ==
    (last.op = "update_order_status" /\ last.req \notin SixStatuses) =>
        /\ last.code = BadRequest
        /\ orders = pre.orders
        /\ menu = pre.menu

\* update_order_status was called with "Paid" on a stored order
C6_Witness ==
    /\ last.op = "update_order_status"
    /\ last.req = "Paid"
    /\ Stored(pre.orders, last.id) # {}

\* C7: update_order_status with one of the six statuses sets only the status of
\* the stored order the id names; on an id that names no order it ends with
\* NotFoundError and changes nothing.
C7_StatusOnly ==
    (last.op = "update_order_status" /\ last.req \in SixStatuses) =>
        /\ menu = pre.menu
        /\ IF Stored(pre.orders, last.id) # {}
           THEN \E i \in Stored(pre.orders, last.id) :
                    orders = [pre.orders EXCEPT ![i].status = last.req]
           ELSE last.code = NotFound /\ orders = pre.orders

\* the part of C7 that holds: the effect on the store
C7_StoreEffect ==
    (last.op = "update_order_status" /\ last.req \in SixStatuses) =>
        /\ menu = pre.menu
        /\ IF Stored(pre.orders, last.id) # {}
           THEN \E i \in Stored(pre.orders, last.id) :
                    orders = [pre.orders EXCEPT ![i].status = last.req]
           ELSE orders = pre.orders

\* the positions of the unpaid orders
Unpaid(coll) == {i \in 1..Len(coll) : coll[i].paid = FALSE}

RECURSIVE SumOver(_, _)
\* the sum of total over the orders at the positions of S
SumOver(coll, S) ==
    IF S = {} THEN 0
    ELSE LET i == CHOOSE j \in S : TRUE IN coll[i].total + SumOver(coll, S \ {i})

\* C8: billing_overview answers with exactly the stored unpaid orders and with
\* the sum of their totals, and changes no state.
C8_Billing ==
    last.op = "billing_overview" =>
        /\ orders = pre.orders
        /\ menu = pre.menu
        /\ last.code = OK
        /\ {last.body[1].orders[k].id : k \in 1..Len(last.body[1].orders)}
              = {str(orders[i]._id) : i \in Unpaid(orders)}
        /\ Len(last.body[1].orders) = Cardinality(Unpaid(orders))
        /\ last.body[1].total_to_collect = SumOver(orders, Unpaid(orders))

\* the part of C8 that holds: billing_overview changes no state, and when it
\* answers, it answers as C8 says
C8_WhenAnswered ==
    last.op = "billing_overview" =>
        /\ orders = pre.orders
        /\ menu = pre.menu
        /\ last.code = OK =>
              /\ {last.body[1].orders[k].id : k \in 1..Len(last.body[1].orders)}
                    = {str(orders[i]._id) : i \in Unpaid(orders)}
              /\ last.body[1].total_to_collect = SumOver(orders, Unpaid(orders))

\* C9: no request sets paid from true to false or removes a paid order (so an
\* order that mark_order_paid has marked stays paid in every later state), and no
\* answer of billing_overview lists a paid order.
C9_PaidStays ==
    /\ \A i \in 1..Len(pre.orders) :
          pre.orders[i].paid =>
              /\ i <= Len(orders)
              /\ orders[i]._id = pre.orders[i]._id
              /\ orders[i].paid
    /\ last.op = "mark_order_paid" =>
          \A i \in Stored(pre.orders, last.id) : orders[i].paid
    /\ (last.op = "billing_overview" /\ last.code = OK) =>
          \A k \in 1..Len(last.body[1].orders) : \A i \in 1..Len(orders) :
              orders[i].paid => last.body[1].orders[k].id # str(orders[i]._id)

\* a paid order has just been moved back to "placed" by update_order_status
C9_Witness ==
    /\ last.op = "update_order_status"
    /\ last.req = "placed"
    /\ \E i \in Stored(pre.orders, last.id) :
          /\ pre.orders[i].paid
          /\ pre.orders[i].status = "paid"
          /\ orders[i].status = "placed"

\* C10: a menu request (create_menu_item, update_menu_item) leaves every line of
\* every order, and every order's sub_total, tax and total, unchanged.
C10_Snapshot ==
    last.op \in {"create_menu_item", "update_menu_item"} =>
        /\ Len(orders) = Len(pre.orders)
        /\ \A i \in 1..Len(orders) :
              /\ orders[i].items = pre.orders[i].items
              /\ orders[i].sub_total = pre.orders[i].sub_total
              /\ orders[i].tax = pre.orders[i].tax
              /\ orders[i].total = pre.orders[i].total

\* update_menu_item has just changed the price of a menu item that a line of a
\* stored order names, and the line still carries the old price
C10_Witness ==
    /\ last.op = "update_menu_item"
    /\ \E i \in 1..Len(orders) : \E k \in 1..Len(orders[i].items) :
          \E m \in Stored(menu, orders[i].items[k].menu_item_id) :
              /\ menu[m].price # pre.menu[m].price
              /\ menu[m].price # Some(orders[i].items[k].price)
              /\ pre.menu[m].price = Some(orders[i].items[k].price)

\* C11: every stored order has at least one line, and no request removes an
\* order or changes any of its fields other than status and paid (its items,
\* table_number, sub_total, tax, total and notes, its id and its creation time
\* stay what they were).
C11_OrdersKept ==
    /\ \A i \in 1..Len(orders) : Len(orders[i].items) > 0
    /\ Len(orders) >= Len(pre.orders)
    /\ \A i \in 1..Len(pre.orders) :
          /\ DOMAIN orders[i] = DOMAIN pre.orders[i]
          /\ \A k \in DOMAIN pre.orders[i] \ {"status", "paid"} :
                orders[i][k] = pre.orders[i][k]

\* mark_order_paid has just changed a stored order that has notes
C11_Witness ==
    /\ last.op = "mark_order_paid"
    /\ \E i \in Stored(pre.orders, last.id) :
          /\ orders[i] # pre.orders[i]
          /\ orders[i].notes # None

\* C12: update_order_status with any of the six statuses on a stored order, in
\* whatever status that order is, succeeds (200) and leaves the order in the
\* requested status.
C12_AnyTransition ==
    (/\ last.op = "update_order_status"
     /\ last.req \in SixStatuses
     /\ Stored(pre.orders, last.id) # {})
    => /\ last.code = OK
       /\ \A i \in Stored(pre.orders, last.id) : orders[i].status = last.req

\* the part of C12 that holds: the requested status is written whatever the
\* status of the order was, and the request is never answered 400 or 404
C12_StatusWritten ==
    (/\ last.op = "update_order_status"
     /\ last.req \in SixStatuses
     /\ Stored(pre.orders, last.id) # {})
    => /\ last.code \notin {BadRequest, NotFound}
       /\ \A i \in Stored(pre.orders, last.id) : orders[i].status = last.req

\* the last request, valid in everything else, was given an id that names no
\* stored record: an order id of update_order_status (with one of the six
\* statuses) or of mark_order_paid, a menu item id of update_menu_item (with a
\* patch that has fields and no negative price), or a menu item id of place_order
\* after items that can all be ordered
UnresolvedId(wellformed) ==
    \/ /\ last.op = "mark_order_paid"
       /\ Stored(pre.orders, last.id) = {}
       /\ wellformed => Len(last.id) = 2
    \/ /\ last.op = "update_order_status"
       /\ last.req \in SixStatuses
       /\ Stored(pre.orders, last.id) = {}
       /\ wellformed => Len(last.id) = 2
    \/ /\ last.op = "update_menu_item"
       /\ DOMAIN last.req # {}
       /\ last.code # Unprocessable
       /\ Stored(pre.menu, last.id) = {}
       /\ wellformed => Len(last.id) = 2
    \/ /\ last.op = "place_order"
       /\ \E k \in 1..Len(last.req.items) :
             /\ Stored(pre.menu, last.req.items[k].menu_item_id) = {}
             /\ wellformed => Len(last.req.items[k].menu_item_id) = 2
             /\ \A j \in 1..(k - 1) :
                   /\ Orderable(pre.menu, last.req.items[j].menu_item_id)
                   /\ \A m \in Stored(pre.menu, last.req.items[j].menu_item_id) :
                         pre.menu[m].price # None /\ pre.menu[m].name # None

\* C13: a request given an id that names no stored record ends with
\* NotFoundError (404), whether the id is a well-formed store id or not.
C13_AlwaysNotFound == UnresolvedId(FALSE) => last.code = NotFound

\* the part of C13 that holds: a well-formed id that names no stored record
\* ends with NotFoundError (404), and the store is unchanged
C13_AbsentIsNotFound ==
    UnresolvedId(TRUE) => (last.code = NotFound /\ menu = pre.menu /\ orders = pre.orders)

\* what list_orders is to answer for the query q: a list b of exactly the
\* stored orders that pass every filter sent, the later-created first
ExactListing(b, q) ==
    LET passes(o) ==
            /\ q.status # None => o.status = q.status[1]
            /\ q.table # None => o.table_number = q.table[1]
            /\ q.paid # None => o.paid = q.paid[1]
        wanted == {i \in 1..Len(orders) : passes(orders[i])}
    IN  /\ Len(b) = Cardinality(wanted)
        /\ {b[k].id : k \in 1..Len(b)} = {str(orders[i]._id) : i \in wanted}
        /\ \A k \in 1..Len(b) : \A l \in (k + 1)..Len(b) : b[k].created_at > b[l].created_at

\* C14: list_orders answers with exactly the stored orders that pass every
\* filter sent (all of them when none is sent), the later-created first, and
\* changes no state.
C14_Listing ==
    last.op = "list_orders" =>
        /\ orders = pre.orders
        /\ menu = pre.menu
        /\ last.code = OK
        /\ ExactListing(last.body[1], last.req)

\* the part of C14 that holds: list_orders changes no state
C14_NoStateChange ==
    last.op = "list_orders" => (orders = pre.orders /\ menu = pre.menu)

\* the menu after the fields of the patch were written to the item at position i
Patched(mn, i, patch) ==
    [mn EXCEPT ![i] = [k \in DOMAIN mn[i] |-> IF k \in DOMAIN patch THEN patch[k] ELSE mn[i][k]]]

\* what C15 says of the menu after update_menu_item: unchanged for an id that
\* names no item and for an empty patch, and otherwise the named item with
\* exactly the fields of the patch changed
MenuAsPatched ==
    IF Stored(pre.menu, last.id) = {} \/ DOMAIN last.req = {}
    THEN menu = pre.menu
    ELSE \E i \in Stored(pre.menu, last.id) : menu = Patched(pre.menu, i, last.req)

\* C15: update_menu_item (with a patch that passes validation) on an id that
\* names no menu item ends with NotFound (404) whatever the patch; with an empty
\* patch on a stored item it answers the unchanged indicator; and the menu after
\* it is as described above, the orders unchanged.
C15_UpdateMenuItem ==
    (last.op = "update_menu_item" /\ last.code # Unprocessable) =>
        /\ orders = pre.orders
        /\ MenuAsPatched
        /\ Stored(pre.menu, last.id) = {} => last.code = NotFound
        /\ (Stored(pre.menu, last.id) # {} /\ DOMAIN last.req = {}) =>
              (last.code = OK /\ last.body = Returned([updated |-> FALSE]))

\* the part of C15 that holds: the effect on the menu, and the unchanged
\* indicator for an empty patch
C15_MenuEffect ==
    (last.op = "update_menu_item" /\ last.code # Unprocessable) =>
        /\ orders = pre.orders
        /\ MenuAsPatched
        /\ DOMAIN last.req = {} =>
              (last.code = OK /\ last.body = Returned([updated |-> FALSE]))

\* a request with a negative price is answered ValidationError (422) and
\* changes nothing
NegativePriceRejected ==
    /\ (last.op = "create_menu_item" /\ last.req.price < 0) =>
          (last.code = Unprocessable /\ menu = pre.menu)
    /\ (/\ last.op = "update_menu_item"
        /\ "price" \in DOMAIN last.req
        /\ last.req.price # None
        /\ last.req.price[1] < 0) =>
          (last.code = Unprocessable /\ menu = pre.menu)

\* C16: every stored menu item has a price, and it is >= 0; a request with a
\* negative price is rejected and changes nothing.
C16_PriceKept ==
    /\ \A i \in 1..Len(menu) : menu[i].price # None /\ menu[i].price[1] >= 0
    /\ NegativePriceRejected

\* the part of C16 that holds: no stored price is negative, and a request with
\* a negative price is rejected and changes nothing
C16_NeverNegative ==
    /\ \A i \in 1..Len(menu) : menu[i].price # None => menu[i].price[1] >= 0
    /\ NegativePriceRejected

\* C19: the status of every stored order is one of the six.
C19_StatusInSix == \A i \in 1..Len(orders) : orders[i].status \in SixStatuses

\* update_order_status has just moved an order that place_order stored in this
\* run from "placed" to "cancelled"
C19_Witness ==
    /\ last.op = "update_order_status"
    /\ requests = 2
    /\ \E i \in Stored(pre.orders, last.id) :
          /\ pre.orders[i].status = "placed"
          /\ orders[i].status = "cancelled"
          /\ orders[i].created_at = Len(orders)

\* the orders that are paid now and were not before the last request
NewlyPaid ==
    {i \in 1..Len(orders) : orders[i].paid /\ (i <= Len(pre.orders) => ~pre.orders[i].paid)}

\* C20: an order becomes paid only by a mark_order_paid on it that succeeded
\* (200); place_order stores unpaid orders and update_order_status leaves paid
\* as it was, also with status "paid"; and billing_overview lists every order
\* that is not paid, whatever its status.
C20_PaidOnlyByMarkPaid ==
    /\ \A i \in NewlyPaid :
          /\ last.op = "mark_order_paid"
          /\ last.code = OK
          /\ i \in Stored(pre.orders, last.id)
    /\ (last.op = "billing_overview" /\ Unpaid(orders) # {}) =>
          /\ last.code = OK
          /\ \A i \in Unpaid(orders) :
                \E k \in 1..Len(last.body[1].orders) :
                    last.body[1].orders[k].id = str(orders[i]._id)

\* the part of C20 that holds: an order becomes paid only by a mark_order_paid
\* on it, and billing_overview fetches every order that is not paid, whatever
\* its status
C20_PaidOnlyAfterMarkPaid ==
    /\ \A i \in NewlyPaid :
          /\ last.op = "mark_order_paid"
          /\ i \in Stored(pre.orders, last.id)
    /\ \A i \in 1..Len(orders) :
          (orders[i].status = "paid" /\ ~orders[i].paid) =>
              \E k \in 1..Len(GetDocumentsPaid(orders, FALSE)) :
                  GetDocumentsPaid(orders, FALSE)[k]._id = orders[i]._id

\* ------------------------------------------------------------ requests at once
\* In SpecRace pre is the store the requests met.

\* task t is an update_order_status with one of the six statuses, or a
\* mark_order_paid, on the stored order at position i
StatusTask(t, i) ==
    /\ tasks[t].op \in {"update_order_status", "mark_order_paid"}
    /\ tasks[t].op = "update_order_status" => tasks[t].req \in SixStatuses
    /\ Names(tasks[t].id, pre.orders[i])

\* the status task t writes
StatusOf(t) == IF tasks[t].op = "mark_order_paid" THEN "paid" ELSE tasks[t].req

\* the tasks that wrote to the order at position i, in the order of their writes
WritesOn(i) == SelectSeq(applied, LAMBDA t : StatusTask(t, i))

\* what C17 says of the store: the status of an order is the one of the last
\* write to it, it is paid if it was or if a mark_order_paid wrote to it, and
\* nothing else of it has changed; a status task that has taken its first step
\* has written, once, and is never answered 400 or 404
LastWriterWins ==
    /\ \A i \in 1..Len(pre.orders) :
          LET ws == WritesOn(i)
          IN  /\ orders[i].status =
                    IF ws = <<>> THEN pre.orders[i].status ELSE StatusOf(ws[Len(ws)])
              /\ orders[i].paid =
                    (pre.orders[i].paid
                     \/ \E n \in 1..Len(ws) : tasks[ws[n]].op = "mark_order_paid")
              /\ \A k \in DOMAIN pre.orders[i] \ {"status", "paid"} :
                    orders[i][k] = pre.orders[i][k]
    /\ \A t \in Tasks : \A i \in 1..Len(pre.orders) :
          (StatusTask(t, i) /\ tasks[t].pc # "start") =>
              /\ Cardinality({n \in 1..Len(applied) : applied[n] = t}) = 1
              /\ tasks[t].code \notin {BadRequest, NotFound}

\* C17: status tasks that run at once on one order each write once; the last
\* write decides the status, a mark_order_paid among them leaves the order paid,
\* nothing else changes, and every one of them succeeds (200).
C17_BothSucceed ==
    /\ LastWriterWins
    /\ \A t \in Tasks : \A i \in 1..Len(pre.orders) :
          (StatusTask(t, i) /\ tasks[t].pc = "done") => tasks[t].code = OK

\* the part of C17 that holds: all of it but the answers
C17_LastWriterWins == LastWriterWins

\* task t is a place_order that has stored its order
HasPlaced(t) ==
    /\ tasks[t].op = "place_order"
    /\ \E n \in 1..Len(applied) : applied[n] = t

\* the order task t has stored
PlacedBy(t) == orders[CHOOSE i \in 1..Len(orders) : Names(tasks[t].id, orders[i])]

\* every line of the order task t stored has the name and the price that the
\* lookup of that line returned, and the requested quantity
LinesAsSeen(t) ==
    LET o == PlacedBy(t)
    IN  /\ Len(o.items) = Len(tasks[t].req.items)
        /\ Len(o.items) = Len(tasks[t].seen)
        /\ \A k \in 1..Len(o.items) :
              /\ Some(o.items[k].name) = tasks[t].seen[k].name
              /\ Some(o.items[k].price) = tasks[t].seen[k].price
              /\ o.items[k].menu_item_id = str(tasks[t].seen[k]._id)
              /\ o.items[k].quantity = tasks[t].req.items[k].quantity
              /\ o.items[k].total = o.items[k].price * o.items[k].quantity

\* the sum of the line totals of an order
TotalSum(o) == SumSeq([k \in 1..Len(o.items) |-> o.items[k].total], Len(o.items))

====
